---------------------------- MODULE Spec2Model ----------------------------
(***************************************************************************)
(* Model of the chain explorer of javascript-opentimestamps:               *)
(* ChainInsight / Blockstream adapters and the MultiExplorer aggregator.   *)
(*                                                                         *)
(* One action is one turn of the JavaScript event loop: a synchronous      *)
(* call (constructor, blockhash, block) or the arrival of one HTTP         *)
(* response together with the promise reactions it triggers.               *)
(***************************************************************************)
EXTENDS Integers, Sequences, FiniteSets, TLC

(***************************************************************************)
(* Bounds of the model.                                                    *)
(***************************************************************************)
\* longest options.explorers list a caller passes
MaxExplorers == 2

(***************************************************************************)
(* JavaScript values.  Every value is a record of the same shape:          *)
(*   t  : the type tag                                                     *)
(*   s  : the text of a string, or the name of an error                    *)
(*   n  : the number                                                       *)
(*   kv : the own enumerable properties of an object, in insertion order   *)
(*   m  : the message of an error, as the chunks it was concatenated from  *)
(***************************************************************************)
Undefined == [t |-> "undefined", s |-> "", n |-> 0, kv |-> <<>>, m |-> <<>>]
Null == [t |-> "null", s |-> "", n |-> 0, kv |-> <<>>, m |-> <<>>]
Str(x) == [t |-> "string", s |-> x, n |-> 0, kv |-> <<>>, m |-> <<>>]
Num(k) == [t |-> "number", s |-> "", n |-> k, kv |-> <<>>, m |-> <<>>]
Obj(props) == [t |-> "object", s |-> "", n |-> 0, kv |-> props, m |-> <<>>]
Err(name, msg) == [t |-> "error", s |-> name, n |-> 0, kv |-> <<>>, m |-> msg]
P(key, val) == [k |-> key, v |-> val]

\* ToBoolean: undefined, null, "" and 0 are falsy; objects (errors included)
\* are truthy
Truthy(v) ==
  CASE v.t = "undefined" -> FALSE
    [] v.t = "null" -> FALSE
    [] v.t = "string" -> v.s # ""
    [] v.t = "number" -> v.n # 0
    [] OTHER -> TRUE

\* result instanceof Error
InstanceOfError(v) == v.t = "error"

\* typeof v
TypeOf(v) ==
  CASE v.t = "error" -> "object"
    [] v.t = "null" -> "object"
    [] OTHER -> v.t

\* String(v) for the values that get concatenated into urls and messages
ToChunk(v) ==
  CASE v.t = "string" -> v.s
    [] v.t = "number" -> ToString(v.n)
    [] v.t = "undefined" -> "undefined"
    [] v.t = "null" -> "null"
    [] OTHER -> "[object Object]"

\* o[key] for a value o that is not undefined (a primitive has no own data
\* property of these names; an object yields the property or undefined)
Get(o, key) ==
  IF o.t = "object" /\ \E i \in 1..Len(o.kv) : o.kv[i].k = key
    THEN o.kv[CHOOSE i \in 1..Len(o.kv) : o.kv[i].k = key].v
    ELSE Undefined

(***************************************************************************)
(* JSON.  A JSON text is a sequence of tokens.                             *)
(***************************************************************************)
Tok(c, x, k) == [c |-> c, s |-> x, n |-> k]
LBrace == Tok("{", "", 0)
RBrace == Tok("}", "", 0)
Colon == Tok(":", "", 0)
Comma == Tok(",", "", 0)

\* the members of an object: a member whose value is undefined is left out
RECURSIVE StringifyMembers(_, _)
RECURSIVE JSONStringify(_)
\* a serialisation that writes a number as the text of its digits
JSONStringify_NumbersAsText(v) ==
  CASE v.t = "string" -> <<Tok("str", v.s, 0)>>
    [] v.t = "number" -> <<Tok("str", ToString(v.n), 0)>>
    [] v.t = "null" -> <<Tok("null", "", 0)>>
    [] v.t = "object" -> <<LBrace>> \o StringifyMembers(v.kv, TRUE) \o <<RBrace>>
    [] v.t = "error" -> <<LBrace, RBrace>>
    [] OTHER -> <<>>

JSONStringify(v) ==
  CASE v.t = "string" -> <<Tok("str", v.s, 0)>>
    [] v.t = "number" -> <<Tok("num", "", v.n)>>
    [] v.t = "null" -> <<Tok("null", "", 0)>>
    [] v.t = "object" -> <<LBrace>> \o StringifyMembers(v.kv, TRUE) \o <<RBrace>>
    [] v.t = "error" -> <<LBrace, RBrace>>
    [] OTHER -> <<>>

StringifyMembers(props, first) ==
  IF props = <<>> THEN <<>>
  ELSE IF Head(props).v.t = "undefined" THEN StringifyMembers(Tail(props), first)
  ELSE (IF first THEN <<>> ELSE <<Comma>>)
       \o <<Tok("str", Head(props).k, 0), Colon>>
       \o JSONStringify(Head(props).v)
       \o StringifyMembers(Tail(props), FALSE)

\* JSON.parse by recursive descent: ParseValue yields the value read at the
\* head of the tokens and the tokens left
RECURSIVE ParseValue(_)
RECURSIVE ParseMembers(_, _)
ParseValue(toks) ==
  LET h == Head(toks) IN
  CASE h.c = "str" -> [v |-> Str(h.s), rest |-> Tail(toks)]
    [] h.c = "num" -> [v |-> Num(h.n), rest |-> Tail(toks)]
    [] h.c = "null" -> [v |-> Null, rest |-> Tail(toks)]
    [] OTHER -> ParseMembers(Tail(toks), <<>>)

ParseMembers(toks, acc) ==
  LET h == Head(toks) IN
  CASE h.c = "}" -> [v |-> Obj(acc), rest |-> Tail(toks)]
    [] h.c = "," -> ParseMembers(Tail(toks), acc)
    [] OTHER ->
         LET val == ParseValue(Tail(Tail(toks)))
         IN ParseMembers(val.rest,
              IF \E i \in 1..Len(acc) : acc[i].k = h.s
                THEN [i \in 1..Len(acc) |->
                        IF acc[i].k = h.s THEN P(h.s, val.v) ELSE acc[i]]
                ELSE Append(acc, P(h.s, val.v)))

JSONParse(text) == ParseValue(text).v

(***************************************************************************)
(* Promises.  st is "pending", "fulfilled" or "rejected"; v is the value   *)
(* or the reason.                                                          *)
(***************************************************************************)
Pending == [st |-> "pending", v |-> Undefined]
Fulfilled(val) == [st |-> "fulfilled", v |-> val]
Rejected(reason) == [st |-> "rejected", v |-> reason]

(***************************************************************************)
(* The transport (request-promise with json: true): a request is answered  *)
(* by a body (a 2xx response) or fails with an error (network, timeout).   *)
(***************************************************************************)
Response(okay, val) == [ok |-> okay, v |-> val]
ETIMEDOUT == Err("RequestError", <<"Error: ETIMEDOUT">>)
TypeErrorOfUndefined == Err("TypeError", <<"Cannot read property of undefined">>)

(***************************************************************************)
(* The adapters.  An adapter is [family, urlBlockindex, urlBlock, timeout];*)
(* a url is the sequence of the chunks it was concatenated from.           *)
(***************************************************************************)
\* new ChainInsight(url, timeout)
NewChainInsight(url, timeout) ==
  [family |-> "insight",
   urlBlockindex |-> <<url, "/block-index">>,
   urlBlock |-> <<url, "/block">>,
   timeout |-> timeout * 1000]

\* new Blockstream(url, timeout)
NewBlockstream(url, timeout) ==
  [family |-> "blockstream",
   urlBlockindex |-> <<url, "/block-height/">>,
   urlBlock |-> <<url, "/block/">>,
   timeout |-> timeout * 1000]

\* the request options built by ChainExplorer.blockhash(height)
BlockhashOptions(explorer, height) ==
  [url |-> explorer.urlBlockindex \o <<"/", ToChunk(height)>>,
   timeout |-> explorer.timeout]

\* the request options built by ChainExplorer.block(hash)
BlockOptions(explorer, hash) ==
  [url |-> explorer.urlBlock \o <<"/", ToChunk(hash)>>,
   timeout |-> explorer.timeout]

\* ChainInsight.parseBlockhash: how the adapter's promise settles on a response.
\* body.size on an undefined or null body throws inside .then, and .catch
\* rejects with the TypeError; a body without blockHash resolves with undefined.
InsightParseBlockhash(resp) ==
  IF ~resp.ok THEN Rejected(resp.v)
  ELSE IF resp.v.t \in {"undefined", "null"} THEN Rejected(TypeErrorOfUndefined)
  ELSE IF Get(resp.v, "size") = Num(0)
    THEN Rejected(Err("Error", <<"Insight response error body ">>))
  ELSE Fulfilled(Get(resp.v, "blockHash"))

\* the normalizer without the test of body.time
InsightParseBlockInfo_NoTimeTest(resp) ==
  IF ~resp.ok THEN Rejected(resp.v)
  ELSE IF ~Truthy(resp.v)
    THEN Rejected(Err("Error", <<"Insight response error body ">>))
  ELSE IF ~Truthy(Get(resp.v, "merkleroot"))
    THEN Rejected(Err("Error", <<"Insight response error body ">>))
  ELSE Fulfilled(Obj(<<P("merkleroot", Get(resp.v, "merkleroot")),
                       P("time", Get(resp.v, "time"))>>))

\* ChainInsight.parseBlockInfo
InsightParseBlockInfo(resp) ==
  IF ~resp.ok THEN Rejected(resp.v)
  ELSE IF ~Truthy(resp.v)
    THEN Rejected(Err("Error", <<"Insight response error body ">>))
  ELSE IF ~Truthy(Get(resp.v, "merkleroot")) \/ ~Truthy(Get(resp.v, "time"))
    THEN Rejected(Err("Error", <<"Insight response error body ">>))
  ELSE Fulfilled(Obj(<<P("merkleroot", Get(resp.v, "merkleroot")),
                       P("time", Get(resp.v, "time"))>>))

\* Blockstream.parseBlockhash
BlockstreamParseBlockhash(resp) ==
  IF ~resp.ok THEN Rejected(resp.v)
  ELSE IF ~Truthy(resp.v)
    THEN Rejected(Err("Error", <<"Blockstream response error body ">>))
  ELSE Fulfilled(resp.v)

\* the normalizer that hands on the fields under the names of the provider
BlockstreamParseBlockInfo_Raw(resp) ==
  IF ~resp.ok THEN Rejected(resp.v)
  ELSE IF ~Truthy(resp.v)
    THEN Rejected(Err("Error", <<"Blockstream response error body ">>))
  ELSE IF ~Truthy(Get(resp.v, "merkle_root")) \/ ~Truthy(Get(resp.v, "timestamp"))
    THEN Rejected(Err("Error", <<"Blockstream response error body ">>))
  ELSE Fulfilled(Obj(<<P("merkle_root", Get(resp.v, "merkle_root")),
                       P("timestamp", Get(resp.v, "timestamp"))>>))

\* Blockstream.parseBlockInfo
BlockstreamParseBlockInfo(resp) ==
  IF ~resp.ok THEN Rejected(resp.v)
  ELSE IF ~Truthy(resp.v)
    THEN Rejected(Err("Error", <<"Blockstream response error body ">>))
  ELSE IF ~Truthy(Get(resp.v, "merkle_root")) \/ ~Truthy(Get(resp.v, "timestamp"))
    THEN Rejected(Err("Error", <<"Blockstream response error body ">>))
  ELSE Fulfilled(Obj(<<P("merkleroot", Get(resp.v, "merkle_root")),
                       P("time", Get(resp.v, "timestamp"))>>))

\* the overridden parse method an adapter dispatches to
AdapterSettle(explorer, method, resp) ==
  CASE explorer.family = "insight" /\ method = "blockhash" -> InsightParseBlockhash(resp)
    [] explorer.family = "insight" /\ method = "block" -> InsightParseBlockInfo(resp)
    [] explorer.family = "blockstream" /\ method = "blockhash" -> BlockstreamParseBlockhash(resp)
    [] OTHER -> BlockstreamParseBlockInfo(resp)

\* BlockstreamExplorer.blockhash of src/blockstream.js, the stand-alone
\* explorer: how its promise settles on a response
StandaloneBlockhash(resp) ==
  IF ~resp.ok THEN Rejected(resp.v)
  ELSE IF ~Truthy(resp.v)
    THEN Rejected(Err("Error", <<"Blockstream response error body ">>))
  ELSE Fulfilled(resp.v)

\* BlockstreamExplorer.block of src/blockstream.js
StandaloneBlock(resp) ==
  IF ~resp.ok THEN Rejected(resp.v)
  ELSE IF ~Truthy(resp.v)
    THEN Rejected(Err("Error", <<"Blockstream response error body ">>))
  ELSE IF ~Truthy(Get(resp.v, "merkle_root")) \/ ~Truthy(Get(resp.v, "timestamp"))
    THEN Rejected(Err("Error", <<"Blockstream response error body ">>))
  ELSE Fulfilled(Obj(<<P("merkleroot", Get(resp.v, "merkle_root")),
                       P("time", Get(resp.v, "timestamp"))>>))

(***************************************************************************)
(* MultiExplorer: the constructor.                                         *)
(***************************************************************************)
\* the registries of public explorer urls
publicChainInsightUrls ==
  [bitcoin |-> <<"https://insight.bitpay.com/api",
                 "https://btc-bitcore1.trezor.io/api",
                 "https://btc-bitcore4.trezor.io/api",
                 "https://blockexplorer.com/api",
                 "https://bitcore.schmoock.net/insight-api">>,
   bitcoinTestnet |-> <<"https://test-insight.bitpay.com/api",
                        "https://testnet.blockexplorer.com/api">>,
   litecoin |-> <<"https://ltc-bitcore1.trezor.io/api",
                  "https://insight.litecore.io/api">>]

\* the timeout in seconds when options.timeout is not given
DefaultTimeout == 10

\* An options argument: given is FALSE when the constructor gets no options
\* object; has is the set of own properties of the object.
Options(has, timeout, chain, explorers) ==
  [given |-> TRUE, has |-> has, timeout |-> timeout, chain |-> chain,
   explorers |-> explorers]
NoOptions ==
  [given |-> FALSE, has |-> {}, timeout |-> 0, chain |-> "", explorers |-> <<>>]

\* options && Object.prototype.hasOwnProperty.call(options, name)
OptionSet(options, name) == options.given /\ name \in options.has

\* the timeout read from the options even when it is not given
CtorTimeout_NoDefault(options) == options.timeout

\* the timeout the constructor passes to the adapters
CtorTimeout(options) ==
  IF OptionSet(options, "timeout") THEN options.timeout ELSE DefaultTimeout

\* the chain whose registry is the fallback
CtorChain(options) ==
  IF OptionSet(options, "chain") THEN options.chain ELSE "bitcoin"

\* the test of the list with length > 0 in place of length > 1
ExplorersOptionSet_AtLeastOne(options) ==
  OptionSet(options, "explorers") /\ Len(options.explorers) > 0

\* We need at least 2 explorer servers (for confirmation)
ExplorersOptionSet(options) ==
  OptionSet(options, "explorers") /\ Len(options.explorers) > 1

\* publicChainInsightUrls[chain].map(u => {url: u, type: 'insight'})
DefaultExplorers(chain) ==
  [i \in 1..Len(publicChainInsightUrls[chain]) |->
     [url |-> Str(publicChainInsightUrls[chain][i]), type |-> Str("insight")]]

\* the adapter built for one entry of the list
NewExplorer(explorer, timeout) ==
  IF Truthy(explorer.type) /\ explorer.type = Str("insight")
    THEN NewChainInsight(explorer.url.s, timeout)
    ELSE NewBlockstream(explorer.url.s, timeout)

\* forEach that skips an entry whose url is not a string instead of throwing
RECURSIVE ForEachExplorer_SkipBad(_, _, _)
ForEachExplorer_SkipBad(list, timeout, acc) ==
  IF list = <<>> THEN [threw |-> FALSE, error |-> Undefined, explorers |-> acc]
  ELSE IF TypeOf(Head(list).url) # "string"
    THEN ForEachExplorer_SkipBad(Tail(list), timeout, acc)
  ELSE ForEachExplorer_SkipBad(Tail(list), timeout,
                               Append(acc, NewExplorer(Head(list), timeout)))

\* explorers.forEach(...): the adapters pushed so far are in acc; an entry
\* whose url is not a string throws out of the loop and out of the constructor
RECURSIVE ForEachExplorer(_, _, _)
ForEachExplorer(list, timeout, acc) ==
  IF list = <<>> THEN [threw |-> FALSE, error |-> Undefined, explorers |-> acc]
  ELSE IF TypeOf(Head(list).url) # "string"
    THEN [threw |-> TRUE,
          error |-> Err("TypeError", <<"URL must be a string">>),
          explorers |-> acc]
  ELSE ForEachExplorer(Tail(list), timeout,
                       Append(acc, NewExplorer(Head(list), timeout)))

\* new MultiExplorer(options): the adapters of the new object, or the error
\* thrown.  An unknown chain has no registry entry and .map throws on undefined.
MultiExplorerConstructor(options) ==
  IF ExplorersOptionSet(options)
    THEN ForEachExplorer(options.explorers, CtorTimeout(options), <<>>)
  ELSE IF CtorChain(options) \notin DOMAIN publicChainInsightUrls
    THEN [threw |-> TRUE, error |-> TypeErrorOfUndefined, explorers |-> <<>>]
  ELSE ForEachExplorer(DefaultExplorers(CtorChain(options)), CtorTimeout(options), <<>>)

(***************************************************************************)
(* MultiExplorer: the queries.                                             *)
(***************************************************************************)
\* Utils.softFail(promise): a promise resolved with the value of the given
\* promise, or with its error
SoftFail(p) ==
  IF p.st = "pending" THEN Pending ELSE Fulfilled(p.v)

\* a join that does not wait: fulfilled as soon as one promise is
PromiseAll_Race(ps) ==
  IF \E i \in 1..Len(ps) : ps[i].st = "rejected"
    THEN Rejected(ps[CHOOSE i \in 1..Len(ps) : ps[i].st = "rejected"].v)
  ELSE IF \E i \in 1..Len(ps) : ps[i].st = "fulfilled" THEN Fulfilled(Undefined)
  ELSE Pending

\* Promise.all over the promises ps: rejected as soon as one is rejected,
\* fulfilled once all are
PromiseAll(ps) ==
  IF \E i \in 1..Len(ps) : ps[i].st = "rejected"
    THEN Rejected(ps[CHOOSE i \in 1..Len(ps) : ps[i].st = "rejected"].v)
  ELSE IF \A i \in 1..Len(ps) : ps[i].st = "fulfilled" THEN Fulfilled(Undefined)
  ELSE Pending

\* an array in place of the Set: every text is kept
SetAdd_NoDedup(set, x) == Append(set, x)

\* set.add(x) on a Set kept in insertion order
SetAdd(set, x) ==
  IF \E i \in 1..Len(set) : set[i] = x THEN set ELSE Append(set, x)

\* the filter without the instanceof Error test
RECURSIVE CollectSet_NoErrorFilter(_, _)
CollectSet_NoErrorFilter(results, set) ==
  IF results = <<>> THEN set
  ELSE CollectSet_NoErrorFilter(Tail(results),
         IF Truthy(Head(results))
           THEN SetAdd(set, JSONStringify(Head(results)))
           ELSE set)

\* the filter that leaves out undefined only, not every falsy value
RECURSIVE CollectSet_OnlyUndefined(_, _)
CollectSet_OnlyUndefined(results, set) ==
  IF results = <<>> THEN set
  ELSE CollectSet_OnlyUndefined(Tail(results),
         IF Head(results) # Undefined /\ ~InstanceOfError(Head(results))
           THEN SetAdd(set, JSONStringify(Head(results)))
           ELSE set)

\* results.filter(result => { if (result && !(result instanceof Error))
\*                              { set.add(JSON.stringify(result)) } })
RECURSIVE CollectSet(_, _)
CollectSet(results, set) ==
  IF results = <<>> THEN set
  ELSE CollectSet(Tail(results),
         IF Truthy(Head(results)) /\ ~InstanceOfError(Head(results))
           THEN SetAdd(set, JSONStringify(Head(results)))
           ELSE set)

\* the head of the two error messages of a query
NoBlock(method) ==
  IF method = "blockhash" THEN "No block height " ELSE "No block hash "
DifferentBlock(method) ==
  IF method = "blockhash" THEN "Different block height " ELSE "Different block hash "

\* the texts of all the usable results, repeated ones included
RECURSIVE CollectSet_NoDedupTexts(_)
CollectSet_NoDedupTexts(results) ==
  IF results = <<>> THEN <<>>
  ELSE (IF Truthy(Head(results)) /\ ~InstanceOfError(Head(results))
          THEN <<JSONStringify(Head(results))>> ELSE <<>>)
       \o CollectSet_NoDedupTexts(Tail(results))

\* how often text x occurs among the texts
RECURSIVE Count(_, _)
Count(texts, x) ==
  IF texts = <<>> THEN 0
  ELSE (IF Head(texts) = x THEN 1 ELSE 0) + Count(Tail(texts), x)

\* a callback that lets a strict majority of the usable results win
ConsensusThen_Majority(results, method, arg) ==
  LET texts == CollectSet(results, <<>>)
      every == CollectSet_NoDedupTexts(results)
  IN IF Len(texts) = 0
       THEN Rejected(Err("Error", <<NoBlock(method), ToChunk(arg), "found">>))
     ELSE IF \E i \in 1..Len(texts) : 2 * Count(every, texts[i]) > Len(every)
       THEN Fulfilled(JSONParse(texts[CHOOSE i \in 1..Len(texts) :
                                        2 * Count(every, texts[i]) > Len(every)]))
     ELSE Rejected(Err("Error", <<DifferentBlock(method), ToChunk(arg), "found">>))

\* a callback that resolves with the first value seen
ConsensusThen_FirstSeen(results, method, arg) ==
  LET set == CollectSet(results, <<>>) IN
  IF Len(set) = 0
    THEN Rejected(Err("Error", <<NoBlock(method), ToChunk(arg), "found">>))
  ELSE Fulfilled(JSONParse(set[1]))

\* a callback without the test for the empty set
ConsensusThen_NoEmptyTest(results, method, arg) ==
  LET set == CollectSet(results, <<>>) IN
  IF Len(set) = 0 THEN Fulfilled(Undefined)
  ELSE IF Len(set) = 1 THEN Fulfilled(JSONParse(set[1]))
  ELSE Rejected(Err("Error", <<DifferentBlock(method), ToChunk(arg), "found">>))

\* a callback without the last else branch: disagreement settles nothing
ConsensusThen_NoElse(results, method, arg) ==
  LET set == CollectSet(results, <<>>) IN
  IF Len(set) = 0
    THEN Rejected(Err("Error", <<NoBlock(method), ToChunk(arg), "found">>))
  ELSE IF Len(set) = 1 THEN Fulfilled(JSONParse(set[1]))
  ELSE Pending

\* a callback that passes on the error of the first adapter when none succeeded
ConsensusThen_RejectsWithCause(results, method, arg) ==
  LET set == CollectSet(results, <<>>) IN
  IF Len(set) = 0
    THEN IF InstanceOfError(Head(results)) THEN Rejected(Head(results))
         ELSE Rejected(Err("Error", <<NoBlock(method), ToChunk(arg), "found">>))
  ELSE IF Len(set) = 1 THEN Fulfilled(JSONParse(set[1]))
  ELSE Rejected(Err("Error", <<DifferentBlock(method), ToChunk(arg), "found">>))

\* the callback of Promise.all(...).then in blockhash / block: how the
\* aggregate promise is settled from the results
ConsensusThen(results, method, arg) ==
  LET set == CollectSet(results, <<>>) IN
  IF Len(set) = 0
    THEN Rejected(Err("Error", <<NoBlock(method), ToChunk(arg), "found">>))
  ELSE IF Len(set) = 1
    THEN Fulfilled(JSONParse(set[1]))
  ELSE Rejected(Err("Error", <<DifferentBlock(method), ToChunk(arg), "found">>))

(***************************************************************************)
(* The inputs.                                                             *)
(***************************************************************************)
\* entries of options.explorers
InsightEntry == [url |-> Str("https://a.example/api"), type |-> Str("insight")]
BlockstreamEntry == [url |-> Str("https://b.example/api"), type |-> Str("blockstream")]
BadUrlEntry == [url |-> Num(5), type |-> Str("insight")]
UnknownTypeEntry == [url |-> Str("https://c.example/api"), type |-> Str("esplora")]
NoTypeEntry == [url |-> Str("https://d.example/api"), type |-> Undefined]
EmptyUrlEntry == [url |-> Str(""), type |-> Str("insight")]
Entries ==
  {InsightEntry, BlockstreamEntry, BadUrlEntry, UnknownTypeEntry, NoTypeEntry}

\* the lists of n entries
Lists(n) == [1..n -> Entries]

\* the options of test/explorer.js
TestOptions ==
  Options({"explorers", "chain", "timeout"}, 11, "bitcoinTestnet",
          <<BlockstreamEntry, InsightEntry>>)

OptionsDomain ==
  {NoOptions, TestOptions}
  \cup {Options({"chain", "timeout"}, 11, c, <<>>) :
          c \in {"bitcoinTestnet", "litecoin", "dogecoin"}}
  \cup {Options({"chain", "explorers"}, 0, "litecoin", l) : l \in Lists(0) \cup Lists(1)}
  \cup {Options({"explorers"}, 0, "", l) : l \in UNION {Lists(n) : n \in 2..MaxExplorers}}
  \cup {Options({"explorers"}, 0, "", <<InsightEntry, EmptyUrlEntry>>),
        Options({"explorers"}, 0, "", <<EmptyUrlEntry, BlockstreamEntry>>),
        Options({"explorers", "chain"}, 0, "dogecoin", <<InsightEntry, BlockstreamEntry>>)}

Heights == {Num(0)}
Hashes == {Str("000000000933ea01")}

\* the bodies a provider answers with
HashBodies ==
  {Undefined, Str("h1"), Str("h2"),
   Obj(<<P("blockHash", Str("h1"))>>), Obj(<<P("blockHash", Str("h2"))>>),
   Obj(<<P("size", Num(0))>>)}
InfoBodies ==
  {Undefined,
   Obj(<<P("merkleroot", Str("m1")), P("time", Num(1231006505))>>),
   Obj(<<P("merkleroot", Str("m2")), P("time", Num(1231006505))>>),
   Obj(<<P("merkle_root", Str("m1")), P("timestamp", Num(1231006505))>>),
   Obj(<<P("merkle_root", Str("m2")), P("timestamp", Num(1231006505))>>),
   Obj(<<P("merkleroot", Str("m1"))>>)}
Bodies(method) == IF method = "blockhash" THEN HashBodies ELSE InfoBodies

\* a body of the insight form for the merkle root m and the time t; a field
\* that is undefined is absent from the body
InsightInfoBody(m, t) ==
  Obj((IF m = Undefined THEN <<>> ELSE <<P("merkleroot", m)>>)
      \o (IF t = Undefined THEN <<>> ELSE <<P("time", t)>>))
\* the same body with the keys in the other order
InsightInfoBodyReordered(m, t) ==
  Obj((IF t = Undefined THEN <<>> ELSE <<P("time", t)>>)
      \o (IF m = Undefined THEN <<>> ELSE <<P("merkleroot", m)>>))
\* a body of the blockstream form
BlockstreamInfoBody(m, t) ==
  Obj((IF m = Undefined THEN <<>> ELSE <<P("merkle_root", m)>>)
      \o (IF t = Undefined THEN <<>> ELSE <<P("timestamp", t)>>))

\* the merkle roots and the times of the bodies: absent, falsy and good ones
MerkleRoots == {Undefined, Null, Str(""), Str("m1"), Str("m2")}
Times == {Undefined, Null, Num(0), Num(1231006505), Num(1231469665)}

\* every kind of body a provider can answer a blockhash request with: no
\* body, an empty one, a bare hash, an object with or without the hash, with
\* a falsy hash, and two objects that differ in the order of their keys only
WideHashBodies ==
  HashBodies
  \cup {Null, Str(""), Obj(<<>>),
        Obj(<<P("blockHash", Str(""))>>), Obj(<<P("blockHash", Num(0))>>),
        Obj(<<P("blockHash", Null)>>),
        Obj(<<P("id", Str("h1")), P("height", Num(0))>>),
        Obj(<<P("height", Num(0)), P("id", Str("h1"))>>)}
\* every kind of body a provider can answer a block request with
WideInfoBodies ==
  InfoBodies
  \cup {Null, Str("Block not found")}
  \cup {InsightInfoBody(m, t) : m \in MerkleRoots, t \in Times}
  \cup {InsightInfoBodyReordered(m, t) : m \in MerkleRoots, t \in Times}
  \cup {BlockstreamInfoBody(m, t) : m \in MerkleRoots, t \in Times}
WideBodies(method) == IF method = "blockhash" THEN WideHashBodies ELSE WideInfoBodies
\* the responses of the transport to a request
Responses(method) ==
  {Response(TRUE, b) : b \in WideBodies(method)} \cup {Response(FALSE, ETIMEDOUT)}

\* one adapter of each family, as the constructor builds them
AnInsight == NewChainInsight("https://a.example/api", DefaultTimeout)
ABlockstream == NewBlockstream("https://b.example/api", DefaultTimeout)

\* the values an adapter promise can hand to the aggregator through softFail:
\* the value it resolved with, or the error it rejected with
Delivered(method) ==
  {SoftFail(AdapterSettle(e, method, r)).v :
     e \in {AnInsight, ABlockstream}, r \in Responses(method)}

(***************************************************************************)
(* The state.                                                              *)
(***************************************************************************)
VARIABLES
  options,    \* the argument of new MultiExplorer(options)
  built,      \* "none" before the constructor ran, then "ok" or "threw"
  thrown,     \* the error the constructor threw
  explorers,  \* this.explorers of the object obtained
  query,      \* the aggregate call in progress: [method, arg]
  reqs,       \* the requests issued by the call, one per adapter
  res,        \* the promises of the adapters, in list order
  soft,       \* res.map(Utils.softFail)
  all,        \* Promise.all(soft)
  agg,        \* the promise the call returned
  cb,         \* how many times the call's resolve / reject were invoked
  probe,      \* one application of the adapters to given inputs, with what
              \* it produced
  other       \* a second aggregate call on the same object, made while the
              \* first is in flight: [query, reqs, res, soft, all, agg, cb]

vars == <<options, built, thrown, explorers, query, reqs, res, soft, all, agg, cb,
          probe, other>>

\* the object and its first call
callVars == <<options, built, thrown, explorers, query, reqs, res, soft, all, agg, cb>>

NoQuery == [method |-> "none", arg |-> Undefined]

NoCall ==
  [query |-> NoQuery, reqs |-> <<>>, res |-> <<>>, soft |-> <<>>,
   all |-> Pending, agg |-> Pending, cb |-> 0]

NoProbe ==
  [kind |-> "none", method |-> "none", resp |-> Response(FALSE, Undefined),
   twin |-> Response(FALSE, Undefined), ins |-> Pending, bs |-> Pending,
   alone |-> Pending, results |-> <<>>, out |-> Pending]

Init ==
  /\ options = NoOptions
  /\ built = "none"
  /\ thrown = Undefined
  /\ explorers = <<>>
  /\ query = NoQuery
  /\ reqs = <<>>
  /\ res = <<>>
  /\ soft = <<>>
  /\ all = Pending
  /\ agg = Pending
  /\ cb = 0
  /\ probe = NoProbe
  /\ other = NoCall

\* m = new MultiExplorer(o)
Construct(o) ==
  /\ built = "none"
  /\ LET r == MultiExplorerConstructor(o) IN
       /\ options' = o
       /\ built' = IF r.threw THEN "threw" ELSE "ok"
       /\ thrown' = r.error
       /\ explorers' = IF r.threw THEN <<>> ELSE r.explorers
  /\ UNCHANGED <<query, reqs, res, soft, all, agg, cb, probe, other>>

\* the values the soft promises of a call have resolved with so far
IsFulfilled(p) == p.st = "fulfilled"
SettledValues(softs) ==
  [j \in 1..Len(SelectSeq(softs, IsFulfilled)) |-> SelectSeq(softs, IsFulfilled)[j].v]

\* one array of results on the object, which every call pushes to
CallResults_Shared(own, foreign) == own \o foreign

\* the results the callback of a call works on: res and set are locals of the
\* call, so they hold what this call collected (own) and nothing of what
\* another call has collected (foreign)
CallResults(own, foreign) == own

\* the promise reactions that follow the settling of adapter promise i as p,
\* run to completion: softFail, Promise.all, the .then callback
React(i, p) ==
  /\ res' = [res EXCEPT ![i] = p]
  /\ soft' = [soft EXCEPT ![i] = SoftFail(p)]
  /\ all' = IF all.st = "pending" THEN PromiseAll(soft') ELSE all
  /\ agg' = IF all.st = "pending" /\ all'.st = "fulfilled" /\ agg.st = "pending"
              THEN ConsensusThen(CallResults([j \in 1..Len(soft') |-> soft'[j].v],
                                             SettledValues(other.soft)),
                                 query.method, query.arg)
              ELSE agg
  /\ cb' = IF all.st = "pending" /\ all'.st = "fulfilled" THEN cb + 1 ELSE cb

\* The model follows one aggregate call at a time: a call starts on the
\* constructed object when none is in progress.
CanCall == built = "ok" /\ (query.method = "none" \/ agg.st # "pending")

\* m.blockhash(height)
Blockhash(height) ==
  /\ CanCall
  /\ query' = [method |-> "blockhash", arg |-> height]
  /\ reqs' = [i \in 1..Len(explorers) |-> BlockhashOptions(explorers[i], height)]
  /\ res' = [i \in 1..Len(explorers) |-> Pending]
  /\ soft' = [i \in 1..Len(explorers) |-> Pending]
  /\ all' = Pending
  /\ agg' = Pending
  /\ cb' = 0
  /\ UNCHANGED <<options, built, thrown, explorers, probe, other>>

\* m.block(hash)
Block(hash) ==
  /\ CanCall
  /\ query' = [method |-> "block", arg |-> hash]
  /\ reqs' = [i \in 1..Len(explorers) |-> BlockOptions(explorers[i], hash)]
  /\ res' = [i \in 1..Len(explorers) |-> Pending]
  /\ soft' = [i \in 1..Len(explorers) |-> Pending]
  /\ all' = Pending
  /\ agg' = Pending
  /\ cb' = 0
  /\ UNCHANGED <<options, built, thrown, explorers, probe, other>>

\* the request of adapter i is answered with a body
TransportBody(i, body) ==
  /\ query.method # "none"
  /\ i \in 1..Len(res)
  /\ res[i].st = "pending"
  /\ React(i, AdapterSettle(explorers[i], query.method, Response(TRUE, body)))
  /\ UNCHANGED <<options, built, thrown, explorers, query, reqs, probe, other>>

\* the request of adapter i fails or times out
TransportError(i) ==
  /\ query.method # "none"
  /\ i \in 1..Len(res)
  /\ res[i].st = "pending"
  /\ React(i, AdapterSettle(explorers[i], query.method, Response(FALSE, ETIMEDOUT)))
  /\ UNCHANGED <<options, built, thrown, explorers, query, reqs, probe, other>>

\* the longest adapter list: a caller's list or the bitcoin registry
MaxAdapters ==
  IF MaxExplorers > Len(publicChainInsightUrls.bitcoin)
    THEN MaxExplorers ELSE Len(publicChainInsightUrls.bitcoin)

Next ==
  \/ \E o \in OptionsDomain : Construct(o)
  \/ \E h \in Heights : Blockhash(h)
  \/ \E h \in Hashes : Block(h)
  \/ \E i \in 1..MaxAdapters : \E b \in Bodies(query.method) : TransportBody(i, b)
  \/ \E i \in 1..MaxAdapters : TransportError(i)

Spec == Init /\ [][Next]_vars

\* a step of the transport: some outstanding request is answered or times out
TransportStep ==
  \E i \in 1..MaxAdapters :
    TransportError(i) \/ \E b \in Bodies(query.method) : TransportBody(i, b)

\* the options the liveness of the calls is checked for: the options of
\* test/explorer.js, a registry of two insight adapters, a list of three
\* adapters of both families, and two that make the constructor throw
LiveOptions ==
  {TestOptions,
   Options({"chain", "timeout"}, 11, "litecoin", <<>>),
   Options({"chain", "timeout"}, 11, "dogecoin", <<>>),
   Options({"explorers"}, 0, "", <<InsightEntry, BlockstreamEntry, NoTypeEntry>>),
   Options({"explorers"}, 0, "", <<InsightEntry, BadUrlEntry>>)}

LiveNext ==
  \/ \E o \in LiveOptions : Construct(o)
  \/ \E h \in Heights : Blockhash(h)
  \/ \E h \in Hashes : Block(h)
  \/ TransportStep

\* no request hangs for ever: while a request is outstanding the transport
\* goes on answering (the timeout of the request options ends the wait)
FairSpec == Init /\ [][LiveNext]_vars /\ WF_vars(TransportStep)

(***************************************************************************)
(* Two calls in flight at once on the same object.                         *)
(***************************************************************************)
\* the state of a call that m.blockhash / m.block has just returned from
StartCall(method, arg) ==
  [query |-> [method |-> method, arg |-> arg],
   reqs |-> [i \in 1..Len(explorers) |->
               IF method = "blockhash" THEN BlockhashOptions(explorers[i], arg)
                                       ELSE BlockOptions(explorers[i], arg)],
   res |-> [i \in 1..Len(explorers) |-> Pending],
   soft |-> [i \in 1..Len(explorers) |-> Pending],
   all |-> Pending, agg |-> Pending, cb |-> 0]

\* the second call is made while the first is in flight
CanCallOther ==
  /\ built = "ok"
  /\ query.method # "none"
  /\ agg.st = "pending"
  /\ (other.query.method = "none" \/ other.agg.st # "pending")

\* m.blockhash(height), the second call
OtherBlockhash(height) ==
  /\ CanCallOther
  /\ other' = StartCall("blockhash", height)
  /\ UNCHANGED <<callVars, probe>>

\* m.block(hash), the second call
OtherBlock(hash) ==
  /\ CanCallOther
  /\ other' = StartCall("block", hash)
  /\ UNCHANGED <<callVars, probe>>

\* the promise reactions of the second call after its adapter promise i
\* settles as p
OtherReact(i, p) ==
  LET softs == [other.soft EXCEPT ![i] = SoftFail(p)]
      joined == IF other.all.st = "pending" THEN PromiseAll(softs) ELSE other.all
      fires == other.all.st = "pending" /\ joined.st = "fulfilled"
  IN other' = [other EXCEPT
       !.res[i] = p,
       !.soft = softs,
       !.all = joined,
       !.agg = IF fires /\ other.agg.st = "pending"
                 THEN ConsensusThen(CallResults([j \in 1..Len(softs) |-> softs[j].v],
                                                SettledValues(soft)),
                                    other.query.method, other.query.arg)
                 ELSE other.agg,
       !.cb = IF fires THEN other.cb + 1 ELSE other.cb]

\* the request of adapter i of the second call is answered with a body
OtherTransportBody(i, body) ==
  /\ other.query.method # "none"
  /\ i \in 1..Len(other.res)
  /\ other.res[i].st = "pending"
  /\ OtherReact(i, AdapterSettle(explorers[i], other.query.method, Response(TRUE, body)))
  /\ UNCHANGED <<callVars, probe>>

\* the request of adapter i of the second call fails or times out
OtherTransportError(i) ==
  /\ other.query.method # "none"
  /\ i \in 1..Len(other.res)
  /\ other.res[i].st = "pending"
  /\ OtherReact(i, AdapterSettle(explorers[i], other.query.method, Response(FALSE, ETIMEDOUT)))
  /\ UNCHANGED <<callVars, probe>>

\* the objects the two calls are made on: the one of test/explorer.js and
\* one built from a registry
ConcurrentOptions ==
  {TestOptions, Options({"chain", "timeout"}, 11, "litecoin", <<>>)}

ConcurrentNext ==
  \/ \E o \in ConcurrentOptions : Construct(o)
  \/ \E h \in Heights : Blockhash(h)
  \/ \E h \in Hashes : Block(h)
  \/ \E i \in 1..MaxAdapters : \E b \in Bodies(query.method) : TransportBody(i, b)
  \/ \E i \in 1..MaxAdapters : TransportError(i)
  \/ \E h \in Heights : OtherBlockhash(h)
  \/ \E h \in Hashes : OtherBlock(h)
  \/ \E i \in 1..MaxAdapters :
       \E b \in Bodies(other.query.method) : OtherTransportBody(i, b)
  \/ \E i \in 1..MaxAdapters : OtherTransportError(i)

ConcurrentSpec == Init /\ [][ConcurrentNext]_vars

(***************************************************************************)
(* The adapters on their own: every kind of response is given to one       *)
(* adapter of each family and to the stand-alone explorer.                 *)
(***************************************************************************)
\* blockhash / block of each adapter, the request answered with resp
ProbeAdapters(method, resp) ==
  /\ probe' = [kind |-> "adapters", method |-> method, resp |-> resp, twin |-> resp,
               ins |-> AdapterSettle(AnInsight, method, resp),
               bs |-> AdapterSettle(ABlockstream, method, resp),
               alone |-> IF method = "blockhash" THEN StandaloneBlockhash(resp)
                                                 ELSE StandaloneBlock(resp),
               results |-> <<>>, out |-> Pending]
  /\ UNCHANGED <<callVars, other>>

\* block(hash) of a MultiExplorer of one blockstream and one insight adapter:
\* each provider answers in its own form for the same merkle root m and time t
ProbePair(m, t, hash) ==
  LET resp == Response(TRUE, InsightInfoBody(m, t))
      twin == Response(TRUE, BlockstreamInfoBody(m, t))
      ins == AdapterSettle(AnInsight, "block", resp)
      bs == AdapterSettle(ABlockstream, "block", twin)
      results == <<SoftFail(bs).v, SoftFail(ins).v>>
  IN /\ probe' = [kind |-> "pair", method |-> "block", resp |-> resp, twin |-> twin,
                  ins |-> ins, bs |-> bs, alone |-> StandaloneBlock(twin),
                  results |-> results,
                  out |-> ConsensusThen(results, "block", hash)]
     /\ UNCHANGED <<callVars, other>>

ProbeNext ==
  \/ \E method \in {"blockhash", "block"} :
       \E resp \in Responses(method) : ProbeAdapters(method, resp)
  \/ \E m \in MerkleRoots : \E t \in Times : \E h \in Hashes : ProbePair(m, t, h)

ProbeSpec == Init /\ [][ProbeNext]_vars

(***************************************************************************)
(* The calls of MultiExplorer with every kind of body, for lists of two    *)
(* adapters.                                                               *)
(***************************************************************************)
WideOptions ==
  {TestOptions,
   Options({"chain", "timeout"}, 11, "litecoin", <<>>),
   Options({"explorers"}, 0, "", <<BlockstreamEntry, BlockstreamEntry>>)}

WideNext ==
  \/ \E o \in WideOptions : Construct(o)
  \/ \E h \in Heights : Blockhash(h)
  \/ \E h \in Hashes : Block(h)
  \/ \E i \in 1..MaxAdapters : \E b \in WideBodies(query.method) : TransportBody(i, b)
  \/ \E i \in 1..MaxAdapters : TransportError(i)

WideSpec == Init /\ [][WideNext]_vars

(***************************************************************************)
(* Vocabulary of the properties.                                           *)
(***************************************************************************)
Adapters == 1..Len(res)
Calling == query.method # "none"
AllSettled == Calling /\ \A i \in Adapters : res[i].st # "pending"
\* adapter i succeeded with a usable value; the value
Succeeded(i) == res[i].st = "fulfilled" /\ Truthy(res[i].v)
\* adapter i failed: its promise rejected (transport error, timeout, error
\* body), or the response was so malformed that it produced no value
Failed(i) == res[i].st = "rejected" \/ (res[i].st = "fulfilled" /\ ~Truthy(res[i].v))
SuccessValues == {res[i].v : i \in {j \in Adapters : Succeeded(j)}}
IsConflict(p) == p.st = "rejected" /\ p.v.m = <<DifferentBlock(query.method), ToChunk(query.arg), "found">>
IsNoConsensus(p) == p.st = "rejected" /\ p.v.m = <<NoBlock(query.method), ToChunk(query.arg), "found">>

\* C1: whenever two distinct successful values appear among the adapters'
\* results, the call never resolves, and once all attempts have settled it is
\* rejected with the conflict error, whatever the counts of each value are.
C1_ConflictOnDisagreement ==
  (Calling /\ Cardinality(SuccessValues) >= 2) =>
     /\ agg.st # "fulfilled"
     /\ AllSettled => IsConflict(agg)

\* a strict majority agrees on one value, a single adapter returns another,
\* and the call was rejected with the conflict error
C1_Witness ==
  /\ AllSettled
  /\ \E v \in SuccessValues :
       /\ 2 * Cardinality({i \in Adapters : Succeeded(i) /\ res[i].v = v}) > Len(res)
       /\ Cardinality({i \in Adapters : Succeeded(i) /\ res[i].v # v}) = 1
  /\ IsConflict(agg)

\* C2: when every adapter resolves with the same value V, the call resolves
\* with V, for every order of the list and every mix of the families.
C2_AgreementResolves ==
  \A i \in Adapters :
    (Succeeded(i) /\ \A j \in Adapters : res[j] = res[i]) => agg = Fulfilled(res[i].v)

\* an insight and a blockstream adapter, blockstream first, resolved with the
\* same block info and the call resolved with it
C2_Witness ==
  /\ AllSettled
  /\ Len(explorers) = 2
  /\ explorers[1].family = "blockstream" /\ explorers[2].family = "insight"
  /\ query.method = "block"
  /\ Succeeded(1) /\ res[2] = res[1]
  /\ agg = Fulfilled(res[1].v)

\* C3: when at least one adapter succeeds with V and every other adapter
\* fails or also succeeds with V, the call resolves with V, however many failed.
C3_PartialFailureTolerated ==
  \A i \in Adapters :
    (Succeeded(i) /\ \A j \in Adapters : Failed(j) \/ res[j] = res[i])
       => agg = Fulfilled(res[i].v)

\* all adapters but one failed, at least one of them by a timeout, and the
\* call resolved with the value of the one that succeeded
C3_Witness ==
  /\ AllSettled
  /\ Cardinality({i \in Adapters : Succeeded(i)}) = 1
  /\ \E j \in Adapters : res[j] = Rejected(ETIMEDOUT)
  /\ Len(res) >= 3
  /\ agg.st = "fulfilled" /\ agg.v \in SuccessValues

\* C4: when every adapter's attempt rejects, the call is rejected with the
\* no-consensus error.
C4_AllFailNoConsensus ==
  (AllSettled /\ \A i \in Adapters : res[i].st = "rejected") => IsNoConsensus(agg)

\* every attempt rejected, by a timeout and by an error body, and the call was
\* rejected with 'No block ... found'
C4_Witness ==
  /\ AllSettled
  /\ \A i \in Adapters : res[i].st = "rejected"
  /\ \E i \in Adapters : res[i].v = ETIMEDOUT
  /\ \E i \in Adapters : res[i].v.s = "Error"
  /\ IsNoConsensus(agg)

\* C5: the promise of the call is pending while any adapter attempt is
\* pending, and it is settled by the reaction to the last attempt settling.
C5_FullJoin ==
  Calling => (agg.st # "pending" <=> \A i \in Adapters : res[i].st # "pending")

\* one attempt failed, two succeeded with different values, another is still
\* outstanding, and the call is pending
C5_Witness ==
  /\ Calling
  /\ agg.st = "pending"
  /\ \E i \in Adapters : res[i].st = "rejected"
  /\ Cardinality(SuccessValues) >= 2
  /\ \E i \in Adapters : res[i].st = "pending"

\* the exchanges of two places of 1..n, and the identity; every permutation
\* is a product of them
Swaps ==
  [n \in 0..MaxAdapters |->
     {[i \in 1..n |-> IF i = a THEN b ELSE IF i = b THEN a ELSE i] :
        a \in 1..n, b \in 1..n}]

\* C6: for a fixed assignment of outcomes to the adapters, the outcome of the
\* call is the same whatever the order in which the attempts settled, and it
\* is the outcome of the same results with any two adapters of the list
\* exchanged (so, step by step, of every permutation of the list).
C6_OrderIndependent ==
  AllSettled =>
    \A f \in Swaps[Len(soft)] :
      ConsensusThen([i \in 1..Len(soft) |-> soft[f[i]].v], query.method, query.arg) = agg

\* the first adapter of the list failed, two later ones succeeded with
\* different values, and the call has settled
C6_Witness ==
  /\ AllSettled
  /\ res[1].st = "rejected"
  /\ \E i, j \in Adapters : i < j /\ Succeeded(i) /\ Succeeded(j) /\ res[i].v # res[j].v
  /\ \E i, j \in Adapters : i < j /\ Succeeded(i) /\ Succeeded(j) /\ res[i].v = res[j].v
  /\ agg.st # "pending"

\* the call ended with a single canonical value, with no-consensus or with
\* the conflict error
OneOutcome ==
  \/ agg.st = "fulfilled" /\ Truthy(agg.v) /\ ~InstanceOfError(agg.v)
  \/ IsNoConsensus(agg)
  \/ IsConflict(agg)

\* C7: when every adapter attempt eventually settles, every call eventually
\* settles; it is settled exactly once, with a value, no-consensus or conflict,
\* and stays as it was settled.
C7_SettlesExactlyOnce ==
  /\ (Calling /\ agg.st = "pending") ~> (Calling /\ agg.st # "pending")
  /\ [](Calling => IF agg.st = "pending" THEN cb = 0 ELSE cb = 1 /\ OneOutcome)
  /\ [][(Calling /\ agg.st # "pending") => (agg' = agg \/ (agg'.st = "pending" /\ res' # res))]_vars

\* a call on three adapters has settled by one run of the callback
C7_Witness ==
  /\ AllSettled
  /\ Len(res) = 3
  /\ agg.st # "pending"
  /\ cb = 1

\* C8: the error a call is rejected with is one the aggregator created
\* (no-consensus or conflict), never the error of an adapter attempt.
C8_FailureAbsorbed ==
  (Calling /\ agg.st = "rejected") =>
     /\ IsNoConsensus(agg) \/ IsConflict(agg)
     /\ \A i \in Adapters : res[i].st = "rejected" => agg.v # res[i].v

\* every attempt rejected, with a timeout, a TypeError and an error body among
\* the reasons, and the call was rejected
C8_Witness ==
  /\ AllSettled
  /\ \A i \in Adapters : res[i].st = "rejected"
  /\ {"RequestError", "TypeError", "Error"} \subseteq {res[i].v.s : i \in Adapters}
  /\ agg.st = "rejected"

\* the caller's list has two or more entries and one of them has a url that
\* is not a string
BadUrlGiven ==
  /\ OptionSet(options, "explorers")
  /\ Len(options.explorers) >= 2
  /\ \E i \in 1..Len(options.explorers) : options.explorers[i].url.t # "string"

\* C9: constructing with a list of two or more entries in which an entry's url
\* is not a string throws from the constructor, wherever the entry is; no
\* object is obtained and no request is issued.
C9_BadUrlThrows ==
  (built # "none" /\ BadUrlGiven) =>
     /\ built = "threw"
     /\ thrown = Err("TypeError", <<"URL must be a string">>)
     /\ explorers = <<>>
     /\ ~Calling
     /\ reqs = <<>>

\* the constructor threw on a list whose last entry is the bad one, after a
\* good first entry
C9_Witness ==
  /\ built = "threw"
  /\ BadUrlGiven
  /\ options.explorers[1].url.t = "string"
  /\ options.explorers[Len(options.explorers)].url.t # "string"

\* the caller's list is used and one of its entries has a type that is
\* neither 'insight' nor 'blockstream'
UnknownFamilyGiven ==
  /\ ExplorersOptionSet(options)
  /\ \E i \in 1..Len(options.explorers) :
       options.explorers[i].type \notin {Str("insight"), Str("blockstream")}

\* C10: constructing with an entry whose type is unknown or missing fails at
\* construction; it is never mapped to one of the families.
C10_UnknownFamilyThrows ==
  (built # "none" /\ UnknownFamilyGiven) => built = "threw"

\* the caller's list is used and one of its entries has the empty string as url
EmptyUrlGiven ==
  /\ ExplorersOptionSet(options)
  /\ \E i \in 1..Len(options.explorers) : options.explorers[i].url = Str("")

\* C11: constructing with an entry whose url is the empty string fails at
\* construction; the entry is not accepted and left to fail at query time.
C11_EmptyUrlThrows ==
  (built # "none" /\ EmptyUrlGiven) => built = "threw"

\* the adapter list the constructor is to build from the registry
RegistryAdapters ==
  LET chain == IF options.given /\ "chain" \in options.has
                 THEN options.chain ELSE "bitcoin"
      seconds == IF options.given /\ "timeout" \in options.has
                   THEN options.timeout ELSE 10
  IN [i \in 1..Len(publicChainInsightUrls[chain]) |->
        [family |-> "insight",
         urlBlockindex |-> <<publicChainInsightUrls[chain][i], "/block-index">>,
         urlBlock |-> <<publicChainInsightUrls[chain][i], "/block">>,
         timeout |-> seconds * 1000]]

\* the caller gave a list of two or more entries
ListGiven ==
  options.given /\ "explorers" \in options.has /\ Len(options.explorers) >= 2

\* C12: when options.explorers is absent or has fewer than 2 entries the list
\* is ignored and the adapters are the registry of the chain ('bitcoin' when
\* no chain is given), in registry order, all of the insight family; when it
\* has 2 or more entries the adapters are those entries in order, whatever the
\* chain.  The timeout is options.timeout seconds, 10 when not given.
C12_DefaultFallback ==
  built = "ok" =>
    /\ ~ListGiven => explorers = RegistryAdapters
    /\ ListGiven =>
         /\ Len(explorers) = Len(options.explorers)
         /\ \A i \in 1..Len(explorers) :
              /\ explorers[i].urlBlock[1] = options.explorers[i].url.s
              /\ explorers[i].urlBlockindex[1] = options.explorers[i].url.s
              /\ options.explorers[i].type \in {Str("insight"), Str("blockstream")}
                   => explorers[i].family = options.explorers[i].type.s
    /\ \A i \in 1..Len(explorers) :
         explorers[i].timeout =
           1000 * (IF options.given /\ "timeout" \in options.has
                     THEN options.timeout ELSE 10)

\* a list of one entry, whose url is not even a string, was ignored: the
\* adapters are the two of the litecoin registry, with the timeout of 10 s
C12_Witness ==
  /\ built = "ok"
  /\ "explorers" \in options.has
  /\ options.explorers = <<BadUrlEntry>>
  /\ Len(explorers) = 2
  /\ explorers[2].urlBlock = <<"https://insight.litecore.io/api", "/block">>
  /\ explorers[1].timeout = 10000

\* C17: every MultiExplorer that was constructed holds at least two adapters;
\* a caller's list of zero or one entry is never the adapter list.
C17_AtLeastTwoAdapters ==
  built = "ok" =>
    /\ Len(explorers) >= 2
    /\ (options.given /\ "explorers" \in options.has /\ Len(options.explorers) < 2)
         => \A i \in 1..Len(explorers) :
              \A j \in 1..Len(options.explorers) :
                explorers[i].urlBlock[1] # options.explorers[j].url.s

\* a list of one good entry was given and two adapters were built
C17_Witness ==
  /\ built = "ok"
  /\ "explorers" \in options.has
  /\ options.explorers = <<BlockstreamEntry>>
  /\ Len(explorers) = 2

\* C13: for every merkle root m and time t, the insight adapter given
\* {merkleroot: m, time: t} and the blockstream adapter given
\* {merkle_root: m, timestamp: t} produce the same block info, a MultiExplorer
\* of the two resolves with it and never reports a conflict between them, and
\* each of the two rejects exactly when m or t is missing or falsy.
C13_NormalizerEquivalence ==
  probe.kind = "pair" =>
    LET m == Get(probe.resp.v, "merkleroot")
        t == Get(probe.resp.v, "time")
        usable == Truthy(m) /\ Truthy(t)
    IN /\ probe.ins.st = "rejected" <=> ~usable
       /\ probe.bs.st = "rejected" <=> ~usable
       /\ usable =>
            /\ probe.ins = Fulfilled(Obj(<<P("merkleroot", m), P("time", t)>>))
            /\ probe.bs = probe.ins
            /\ probe.out = Fulfilled(probe.ins.v)
       /\ probe.out.st = "rejected" => Head(probe.out.v.m) = NoBlock("block")

\* both providers answered for ("m1", 1231006505), each in its own form, and
\* the MultiExplorer resolved with the one block info
C13_Witness ==
  /\ probe.kind = "pair"
  /\ probe.twin.v = Obj(<<P("merkle_root", Str("m1")), P("timestamp", Num(1231006505))>>)
  /\ probe.bs.st = "fulfilled"
  /\ probe.ins.st = "fulfilled"
  /\ probe.out = Fulfilled(Obj(<<P("merkleroot", Str("m1")), P("time", Num(1231006505))>>))

\* the body of the response has no usable field of the name, or is no object
Lacks(resp, key) == ~Truthy(Get(resp.v, key))

\* C14: block(hash) of an adapter never yields a partial value: it resolves
\* with an object whose merkleroot and time are both truthy, or it rejects; a
\* body that is absent, lacks one of the two fields of the family or has it
\* falsy (a timestamp of 0, an empty merkle root) is rejected.  The same
\* holds for the stand-alone BlockstreamExplorer.
C14_NoPartialBlockInfo ==
  (probe.kind \in {"adapters", "pair"} /\ probe.method = "block") =>
    /\ \A p \in {probe.ins, probe.bs, probe.alone} :
         \/ p.st = "rejected"
         \/ /\ p.st = "fulfilled"
            /\ Truthy(Get(p.v, "merkleroot"))
            /\ Truthy(Get(p.v, "time"))
    /\ (Lacks(probe.resp, "merkleroot") \/ Lacks(probe.resp, "time"))
         => probe.ins.st = "rejected"
    /\ (Lacks(probe.twin, "merkle_root") \/ Lacks(probe.twin, "timestamp"))
         => probe.bs.st = "rejected" /\ probe.alone.st = "rejected"

\* a blockstream body with a merkle root and the timestamp 0 was rejected by
\* the adapter and by the stand-alone explorer
C14_Witness ==
  /\ probe.kind = "adapters"
  /\ probe.method = "block"
  /\ probe.resp = Response(TRUE, Obj(<<P("merkle_root", Str("m1")), P("timestamp", Num(0))>>))
  /\ probe.bs.st = "rejected"
  /\ probe.alone.st = "rejected"

\* C15: blockhash(height) of an adapter rejects whenever the body is empty or
\* absent or lacks the hash of its family (insight: a body without blockHash;
\* blockstream: an empty body), and never resolves with an undefined hash.
C15_HashRejectsUnusable ==
  (probe.kind = "adapters" /\ probe.method = "blockhash" /\ probe.resp.ok) =>
    /\ Get(probe.resp.v, "blockHash") = Undefined => probe.ins.st = "rejected"
    /\ ~Truthy(probe.resp.v) =>
         probe.bs.st = "rejected" /\ probe.alone.st = "rejected"
    /\ \A p \in {probe.ins, probe.bs, probe.alone} :
         p.st = "fulfilled" => p.v # Undefined

\* equality of two values as values: the same primitive, or objects with the
\* same keys and equal values under each key, in whatever order
Keys(o) == {o.kv[i].k : i \in 1..Len(o.kv)}
RECURSIVE DeepEqual(_, _)
DeepEqual(a, b) ==
  IF a.t # "object" \/ b.t # "object" THEN a = b
  ELSE /\ Keys(a) = Keys(b)
       /\ \A k \in Keys(a) : DeepEqual(Get(a, k), Get(b, k))

\* C18: over all the values the adapters can deliver, two successful results
\* are in the same group (have the same JSON.stringify text) exactly when
\* they are equal as values; equal values never produce a conflict and
\* unequal values never produce agreement.
C18_GroupingIsEquality ==
  AllSettled =>
    /\ \A i, j \in Adapters :
         (Succeeded(i) /\ Succeeded(j)) =>
           (JSONStringify(res[i].v) = JSONStringify(res[j].v)
              <=> DeepEqual(res[i].v, res[j].v))
    /\ (\A i, j \in Adapters :
          (Succeeded(i) /\ Succeeded(j)) => DeepEqual(res[i].v, res[j].v))
         => ~IsConflict(agg)
    /\ agg.st = "fulfilled" =>
         \A i, j \in Adapters :
           (Succeeded(i) /\ Succeeded(j)) => DeepEqual(res[i].v, res[j].v)

\* C19: whenever blockhash / block resolves with a value, the value is the
\* success value of at least one adapter of that call and of every adapter
\* of that call that succeeded with a usable value, and JSON.stringify followed
\* by JSON.parse returns it unchanged.
C19_Validity ==
  (Calling /\ agg.st = "fulfilled") =>
    /\ agg.v \in SuccessValues
    /\ \A i \in Adapters : Succeeded(i) => res[i].v = agg.v
    /\ JSONParse(JSONStringify(agg.v)) = agg.v

\* block resolved with the block info that both adapters of the test's
\* MultiExplorer succeeded with, its time still a number
C19_Witness ==
  /\ options = TestOptions
  /\ query.method = "block"
  /\ \A i \in Adapters : Succeeded(i)
  /\ agg = Fulfilled(Obj(<<P("merkleroot", Str("m2")), P("time", Num(1231469665))>>))

\* attempt i resolved, with a value that is falsy
ResolvedFalsy(i) == res[i].st = "fulfilled" /\ ~Truthy(res[i].v)

\* C20: an attempt that resolves with a falsy value (undefined, null, '', 0)
\* is left out of the consensus set like a rejected one: it makes no conflict
\* with the values of the others and does not count as agreement, and when
\* every attempt is of this kind or rejected the call rejects with the
\* no-consensus error.
C20_UnusableIsFailure ==
  (AllSettled /\ \E i \in Adapters : ResolvedFalsy(i)) =>
    /\ SuccessValues = {} => IsNoConsensus(agg)
    /\ \A v \in SuccessValues : SuccessValues = {v} => agg = Fulfilled(v)
    /\ IsConflict(agg) => Cardinality(SuccessValues) >= 2
    /\ agg.st = "fulfilled" => Truthy(agg.v)

\* the insight adapter resolved with the empty string and the call resolved
\* with the hash of the other adapter
C20_Witness ==
  /\ AllSettled
  /\ query.method = "blockhash"
  /\ \E i \in Adapters : res[i] = Fulfilled(Str(""))
  /\ agg = Fulfilled(Str("h1"))

\* the outcome a call is to have, by its own adapter results alone
OutcomeOf(call) ==
  LET usable == {call.res[i].v :
                   i \in {j \in 1..Len(call.res) :
                            call.res[j].st = "fulfilled" /\ Truthy(call.res[j].v)}}
      tail == <<ToChunk(call.query.arg), "found">>
  IN IF usable = {}
       THEN Rejected(Err("Error", <<NoBlock(call.query.method)>> \o tail))
     ELSE IF Cardinality(usable) = 1
       THEN Fulfilled(CHOOSE v \in usable : TRUE)
     ELSE Rejected(Err("Error", <<DifferentBlock(call.query.method)>> \o tail))

FirstCall ==
  [query |-> query, reqs |-> reqs, res |-> res, soft |-> soft, all |-> all,
   agg |-> agg, cb |-> cb]

\* C16: no sequence of blockhash / block calls, however interleaved, changes
\* the adapter list or an adapter's urls and timeout, and the outcome of a
\* call depends on the adapter results of that call only, not on the results
\* of a call in flight at the same time or made earlier.
C16_NoSharedState ==
  built = "ok" =>
    /\ explorers = MultiExplorerConstructor(options).explorers
    /\ \A call \in {FirstCall, other} :
         /\ call.query.method # "none" => Len(call.res) = Len(explorers)
         /\ (call.query.method # "none"
               /\ \A i \in 1..Len(call.res) : call.res[i].st # "pending")
              => call.agg = OutcomeOf(call)
         /\ (\E i \in 1..Len(call.res) : call.res[i].st = "pending")
              => call.agg.st = "pending"

\* the second call, made while the first was in flight, has ended in a
\* conflict of h1 and h2; the first, still waiting for one adapter, has h1 in
\* hand and will resolve with it
C16_Witness ==
  /\ query.method = "blockhash"
  /\ other.query.method = "blockhash"
  /\ other.agg.st = "rejected"
  /\ Head(other.agg.v.m) = DifferentBlock("blockhash")
  /\ res[1] = Fulfilled(Str("h1"))
  /\ res[2] = Pending
  /\ agg = Pending

=============================================================================
